---- MODULE Spec2Model ----
(***************************************************************************)
(* Settlement engine of the medal economy: the stored procedure            *)
(* run_weighted_distribution_v2 (capped proportional distribution with     *)
(* water-filling and a largest-remainder pass) over the tables players,    *)
(* scores, event_totals and ledger_transactions, for one (event, medal).   *)
(*                                                                         *)
(* Every invocation is one database transaction.  Its writes are kept in   *)
(* txLedger / txTotals until the transaction commits; a failure discards   *)
(* them.  The row lock taken by SELECT ... FOR UPDATE is the variable      *)
(* lock.                                                                   *)
(***************************************************************************)
EXTENDS Integers, FiniteSets, Sequences, TLC

\* ---------------------------------------------------------------- bounds
NumPlayers == 11      \* rows of the players table in the pot scenarios
NumAltPlayers == 3    \* rows of the players table in the alt scenarios
MaxScore == 2         \* largest score of one score row in the pot scenarios
MaxTotal == 12        \* largest event_totals.total_amount
TotalSpan == 1        \* total_amount ranges over MaxTotal - TotalSpan .. MaxTotal
MaxRaffle == 1        \* largest event_totals.raffle_amount_used at the start
MaxRuns == 2          \* invocations of the procedure in one behaviour
NumFilterPlayers == 2 \* rows of the players table in the filter scenarios
MaxFilterScore == 2   \* largest score of one score row in the filter scenarios
MaxThreshold == 1     \* largest event_totals.min_score_for_raffle
FilterTotal == 20     \* event_totals.total_amount in the filter scenarios
MaxPayload == 2       \* elements of one upsert_scores_big_v2 payload
MaxUpsertCalls == 2   \* upsert_scores_big_v2 calls in one behaviour
MaxClientOps == 2     \* operations started from the admin pages in one behaviour
NumRaffles == 2       \* rows of the raffles table of the (event, medal)
MaxPrizes == 2        \* largest raffles.total_prizes
MaxPotPrizes == 3     \* largest total_amount of a raffle scenario, in prizes
MaxReview == 2        \* rows of the score review page
NumSkewPlayers == 3   \* rows of the players table in the skewed scenarios
SkewTotal == 100      \* the large event_totals.total_amount of the skewed scenarios
SmallTotal == 9       \* the small event_totals.total_amount of the skewed scenarios

\* ------------------------------------------------------------- constants
NULL == 0                       \* SQL NULL of a uuid or timestamp column
Deleted == 1                    \* a players.deleted_at that is set
TotalsId == 1                   \* id of the event_totals row of the pair
NoProc == 0                     \* the row lock is free
Procs == {1, 2}                 \* database sessions calling the procedure
Admins == {1, 2}                \* admins with the audit log open
PlayerIds == 1..NumPlayers

\* ------------------------------------------------------------- variables
VARIABLES
  players,       \* players table: id -> [is_alt, main_player_id]
  scores,        \* scores table of the event: player_id -> [score, verified]
  event_totals,  \* the event_totals row of the (event, medal)
  ledger,        \* committed ledger_transactions rows
  lock,          \* session holding the FOR UPDATE lock on the event_totals row
  pc,            \* position of each session inside the procedure
  loc,           \* the procedure's DECLAREd variables, per session
  temp,          \* temp_distribution, per session
  txLedger,      \* ledger rows inserted by the open transaction
  txTotals,      \* event_totals row as updated by the open transaction
  nruns,         \* number of invocations started
  results,       \* value returned (or error raised) by each invocation
  payload,       \* argument of the upsert_scores_big_v2 call in progress
  upsert,        \* upsert_scores_big_v2: position, loop index, counters
  upresults,     \* value returned (or error raised) by each upsert call
  batch_operations, \* batch_operations table: id -> status
  raffle_status, \* raffles.status of the event's raffle
  client,        \* the delete mutation of the player page, between requests
  nops,          \* number of operations started from the admin pages
  raffles,       \* raffles table of the (event, medal): id -> [status, total_prizes]
  raffle_entries, \* raffle_entries table: rows [raffle_id, player_id, is_winner, prize_amount]
  draw,          \* the raffle page's draw, before its event_totals update
  rollback,      \* the audit log's rollback of each admin, between requests
  review         \* the score review page: its rows and the commit in progress

vars == <<players, scores, event_totals, ledger, lock, pc, loc, temp,
          txLedger, txTotals, nruns, results, payload, upsert, upresults,
          batch_operations, raffle_status, client, nops, raffles,
          raffle_entries, draw, rollback, review>>

\* the state of the raffle page
pageVars == <<raffles, raffle_entries, draw>>
\* the state of the admin pages
clientVars == <<batch_operations, raffle_status, client, nops, pageVars,
                rollback, review>>

\* the state of the score import
upsertVars == <<payload, upsert, upresults>>
\* the state of one run_weighted_distribution_v2 session and of its tables
runVars == <<event_totals, ledger, lock, pc, loc, temp, txLedger, txTotals,
             nruns, results>>

\* --------------------------------------------------------------- helpers
Min(a, b) == IF a <= b THEN a ELSE b

RECURSIVE SumOver(_, _)
SumOver(f, S) ==
  IF S = {} THEN 0
  ELSE LET x == CHOOSE y \in S : TRUE IN f[x] + SumOver(f, S \ {x})

\* ------------------------------------------------ numeric(…) arithmetic
\* score_sum::numeric / sum_scores is a numeric division: for operands below
\* 10000 PostgreSQL computes the quotient to 20 decimal places, rounding half
\* up, and only then multiplies by remaining.  With q = s/S rounded to 20
\* places, x = q * R differs from the exact s*R/S by less than 10^-16, in
\* the direction of the rounding of q.
DivScale == 20

RECURSIVE Pow10Mod(_, _)
Pow10Mod(k, S) == IF k = 0 THEN 1 % S ELSE (10 * Pow10Mod(k - 1, S)) % S

\* -1, 0, +1: q was rounded down, is exact, was rounded up
QuotientError(s, S) ==
  LET r == ((s % S) * Pow10Mod(DivScale, S)) % S
  IN  IF r = 0 THEN 0 ELSE IF 2 * r >= S THEN 1 ELSE -1

\* FLOOR((score_sum::numeric / sum_scores) * remaining)
CeilShare(s, S, R) == ((s * R) + S - 1) \div S
FloorShare(s, S, R) ==
  LET k == (s * R) \div S
      m == (s * R) % S
  IN  IF m = 0 /\ QuotientError(s, S) < 0 THEN k - 1 ELSE k

\* ((score_sum::numeric / sum_scores) * remaining)::numeric(30,0)
RawShare(s, S, R) ==
  LET k == (s * R) \div S
      m == (s * R) % S
  IN  IF m = 0 THEN k
      ELSE IF 2 * m > S THEN k + 1
      ELSE IF 2 * m < S THEN k
      ELSE IF QuotientError(s, S) < 0 THEN k ELSE k + 1

\* (LEAST(x, cap) - FLOOR(LEAST(x, cap)))::numeric(10,6), in millionths
FracUnit == 1000000
Fractional(s, S, R, cap) ==
  LET m == (s * R) % S
      n == 2 * FracUnit * m + S
  IN  IF FloorShare(s, S, R) >= cap THEN 0
      ELSE IF m = 0 THEN (IF QuotientError(s, S) < 0 THEN FracUnit ELSE 0)
      ELSE IF n % (2 * S) = 0 /\ QuotientError(s, S) < 0
           THEN (n \div (2 * S)) - 1
           ELSE n \div (2 * S)

\* remaining := total_pot - raffle_used - already_distributed
RemainingIgnoringDistributed(total_pot, raffle_used, already_distributed) ==
  total_pot - raffle_used
Remaining(total_pot, raffle_used, already_distributed) ==
  total_pot - raffle_used - already_distributed

\* cap_amount := FLOOR(remaining * 0.10)
CapAmountFifth(remaining) == remaining \div 5
CapAmount(remaining) == remaining \div 10

\* ----------------------------------------------------------- aggregation
\* COALESCE(p.main_player_id, p.id)
MainId(pl, p) ==
  IF pl[p].main_player_id # NULL THEN pl[p].main_player_id ELSE p

\* rows of scores JOIN players that pass the WHERE clause
QualifyingRowsIgnoringVerified(pl, sc, threshold) ==
  {p \in DOMAIN sc : p \in DOMAIN pl /\ sc[p].score >= threshold}
QualifyingRows(pl, sc, threshold) ==
  {p \in DOMAIN sc : p \in DOMAIN pl
                     /\ sc[p].score >= threshold
                     /\ sc[p].verified}

\* INSERT INTO temp_distribution (main_id, score_sum) SELECT ... GROUP BY
Aggregate(pl, sc, threshold) ==
  LET rows == QualifyingRows(pl, sc, threshold)
      ids  == {MainId(pl, p) : p \in rows}
      sco  == [p \in rows |-> sc[p].score]
  IN  [m \in ids |->
         [score_sum  |-> SumOver(sco, {p \in rows : MainId(pl, p) = m}),
          raw_share  |-> 0,
          share      |-> 0,
          fractional |-> 0,
          is_capped  |-> FALSE]]

SumScores(t) == SumOver([m \in DOMAIN t |-> t[m].score_sum], DOMAIN t)
SumShares(t) == SumOver([m \in DOMAIN t |-> t[m].share], DOMAIN t)

\* UPDATE temp_distribution SET raw_share, share, fractional, is_capped
InitialAllocation(t, S, R, cap) ==
  [m \in DOMAIN t |->
     [score_sum  |-> t[m].score_sum,
      raw_share  |-> RawShare(t[m].score_sum, S, R),
      share      |-> Min(FloorShare(t[m].score_sum, S, R), cap),
      fractional |-> Fractional(t[m].score_sum, S, R, cap),
      is_capped  |-> FloorShare(t[m].score_sum, S, R) > cap]]

\* ---------------------------------------------------------- water-filling
\* WHERE share < cap_amount AND share < raw_share
WaterFillRows(t, cap) ==
  {m \in DOMAIN t : t[m].share < cap /\ t[m].share < t[m].raw_share}

\* LEAST(cap_amount - share, LEAST(raw_share, cap_amount) - share)
Residual(r, cap) == Min(cap - r.share, Min(r.raw_share, cap) - r.share)

TotalResidual(t, cap) ==
  SumOver([m \in WaterFillRows(t, cap) |-> Residual(t[m], cap)],
          WaterFillRows(t, cap))

\* delta := LEAST(delta, cap_amount - player_record.share)
UnclampedDelta(delta, cap, share) == delta
ClampDelta(delta, cap, share) == Min(delta, cap - share)

\* delta := FLOOR(leftover * player_record.residual / total_residual), then
\* clamped.  The numeric quotient carries at least 16 decimal places, so for
\* the operands of this model its floor is the integer quotient.
Delta(t, m, leftover, cap) ==
  ClampDelta((leftover * Residual(t[m], cap)) \div TotalResidual(t, cap),
             cap, t[m].share)

\* the FOR loop of one round: every row of the cursor gets its delta
WaterFillRound(t, leftover, cap) ==
  [m \in DOMAIN t |->
     IF m \in WaterFillRows(t, cap) /\ Delta(t, m, leftover, cap) > 0
     THEN [t[m] EXCEPT
             !.share = t[m].share + Delta(t, m, leftover, cap),
             !.is_capped = (t[m].share + Delta(t, m, leftover, cap) >= cap)]
     ELSE t[m]]

\* ------------------------------------------------------ largest remainder
\* WHERE share < cap_amount
UnderCapOffByOne(t, cap) == {m \in DOMAIN t : t[m].share + 1 < cap}
UnderCap(t, cap) == {m \in DOMAIN t : t[m].share < cap}

\* ORDER BY fractional DESC, score_sum DESC LIMIT 1: the rows that can come
\* first; rows equal in both keys come in an order SQL leaves open
TopFractionalAnyRow(t, cap) == UnderCap(t, cap)
TopFractional(t, cap) ==
  {m \in UnderCap(t, cap) :
     \A o \in UnderCap(t, cap) :
        \/ t[m].fractional > t[o].fractional
        \/ /\ t[m].fractional = t[o].fractional
           /\ t[m].score_sum >= t[o].score_sum}

\* UPDATE ... SET share = share + 1, fractional = 0, is_capped = ...
GrantOneFractionOnly(t, m, cap) == [t EXCEPT ![m].fractional = 0]
GrantOne(t, m, cap) ==
  [t EXCEPT ![m] = [@ EXCEPT !.share = @ + 1,
                             !.fractional = 0,
                             !.is_capped = (t[m].share + 1 >= cap)]]

\* ----------------------------------------------------------------- ledger
\* SELECT main_id, share FROM temp_distribution WHERE share > 0
PaidRowsWithZero(t) == DOMAIN t
PaidRows(t) == {m \in DOMAIN t : t[m].share > 0}

\* id stands for the row's uuid where rows can agree in every other column:
\* the page operation that inserted a reversal and the one that inserted
\* the row it reverses
NoId == <<0, 0>>
LedgerRow(m, amount, run) ==
  [player_id |-> m, amount |-> amount,
   transaction_type |-> "weighted_distribution", run |-> run,
   batch_operation_id |-> NULL, id |-> NoId]

\* ---------------------------------------------------------- return values
NoResult == [session |-> NoProc, status |-> "running", reason |-> "",
             rolled_back |-> 0, remaining |-> 0,
             players |-> 0, remaining_before |-> 0, distributed_now |-> 0,
             remaining_after |-> 0, capped_players |-> 0]
NoopResult(p, reason, remaining) ==
  [NoResult EXCEPT !.session = p, !.status = "noop", !.reason = reason,
                   !.remaining = remaining]
\* an error; rolled_back counts the ledger rows the rollback takes back
ErrorResult(p, inserted) ==
  [NoResult EXCEPT !.session = p, !.status = "error",
                   !.rolled_back = Cardinality(inserted)]
\* RAISE EXCEPTION 'Event totals not found ...'
NotFoundResult(p) ==
  [NoResult EXCEPT !.session = p, !.status = "error", !.reason = "not_found"]
OkResult(p, l) ==
  [NoResult EXCEPT !.session = p, !.status = "ok",
                   !.players = l.player_count,
                   !.remaining_before = l.remaining,
                   !.distributed_now = l.total_distributed,
                   !.remaining_after = l.remaining - l.total_distributed,
                   !.capped_players = l.capped_count]

\* ------------------------------------------------------------------- Init
NoLocals == [run |-> 0, total_pot |-> 0, raffle_used |-> 0,
             already_distributed |-> 0, min_score_threshold |-> 0,
             remaining |-> 0, cap_amount |-> 0, sum_scores |-> 0,
             leftover |-> 0, realloc_round |-> 0, total_distributed |-> 0,
             player_count |-> 0, capped_count |-> 0]
max_realloc_rounds == 10

\* a scores row whose raw_score is the score itself
ScoreRow(score, verified) ==
  [score |-> score, raw_score |-> score, verified |-> verified]

\* upsert_scores_big_v2 is not running
NoPayload == [typeof |-> "array", elements |-> << >>]
UpsertIdle == [pc |-> "idle", i |-> 0, committed |-> 0, skipped |-> 0]

\* no rollback of the admin is between two requests
RollbackIdle == [pc |-> "idle", batch |-> NULL, op |-> 0, transactions |-> {}]

\* the review page holds no rows and no commit is in progress
ReviewIdle == [pc |-> "idle", rows |-> << >>, payload |-> << >>]

\* no draw of the raffle page is between two requests
DrawIdle == [pc |-> "idle", raffle |-> NULL, winners |-> {}]

\* no mutation of the player page is between two requests
ClientIdle == [pc |-> "idle", player |-> NULL, has_data |-> FALSE]

PlainMain == [is_alt |-> FALSE, main_player_id |-> NULL, deleted_at |-> NULL]

InitSessions ==
  /\ ledger = {}
  /\ lock = NoProc
  /\ pc = [p \in Procs |-> "idle"]
  /\ loc = [p \in Procs |-> NoLocals]
  /\ temp = [p \in Procs |-> << >>]
  /\ txLedger = [p \in Procs |-> {}]
  /\ txTotals = [p \in Procs |-> {}]
  /\ nruns = 0
  /\ results = << >>
  /\ payload = NoPayload
  /\ upsert = UpsertIdle
  /\ upresults = << >>
  /\ batch_operations = << >>
  /\ raffle_status = "pending"
  /\ client = ClientIdle
  /\ nops = 0
  /\ raffle_entries = {}
  /\ draw = DrawIdle
  /\ rollback = [a \in Admins |-> RollbackIdle]
  /\ review = ReviewIdle

InitTotals(lo, hi) ==
  \E total \in lo..hi, raffle \in 0..MaxRaffle :
     /\ raffle <= total
     /\ event_totals = [id |-> TotalsId,
                        total_amount |-> total,
                        raffle_amount_used |-> raffle,
                        distributed_amount |-> 0,
                        min_score_for_raffle |-> 0]

\* no event_totals row exists for the (event, medal) pair
NoTotalsRow == [id |-> NULL,
                total_amount |-> 0,
                raffle_amount_used |-> 0,
                distributed_amount |-> 0,
                min_score_for_raffle |-> 0]

\* Pot scenarios: NumPlayers plain mains; the first count[1] of them have a
\* verified score row with a score of 1..MaxScore.  The players are
\* interchangeable, so the scores are taken in non-increasing order of id:
\* count[v] players have a score of at least v.
Init ==
  /\ raffles = << >>
  /\ players = [i \in PlayerIds |-> PlainMain]
  /\ \E count \in [1..MaxScore -> 0..NumPlayers] :
        /\ \A v \in 1..(MaxScore - 1) : count[v] >= count[v + 1]
        /\ scores = [i \in 1..count[1] |->
                       ScoreRow(Cardinality({v \in 1..MaxScore : count[v] >= i}),
                                TRUE)]
  /\ InitTotals(MaxTotal - TotalSpan, MaxTotal)
  /\ InitSessions

\* Alt scenarios: player 1 is a plain main with score 100, player 2 has
\* score 50, every further player score 100; every player but the first has
\* any is_alt flag and any main_player_id the schema admits.
AltPlayerIds == 1..NumAltPlayers
AltScoreMain == 100
AltScoreAlt == 50
InitAlt ==
  /\ raffles = << >>
  /\ players \in [AltPlayerIds ->
                    [is_alt : BOOLEAN, main_player_id : {NULL} \cup AltPlayerIds,
                     deleted_at : {NULL}]]
  /\ players[1] = PlainMain
  /\ scores = [i \in AltPlayerIds |->
                 ScoreRow(IF i = 2 THEN AltScoreAlt ELSE AltScoreMain, TRUE)]
  /\ InitTotals(MaxTotal - 2, MaxTotal)
  /\ InitSessions

\* ---------------------------------------------------------------- actions
\* ledger rows visible to other transactions once this one has ended: the
\* procedure runs inside one transaction, so a failure takes its inserts back
VisibleWithoutRollback(committed, inserted, commit) == committed \cup inserted
VisibleLedger(committed, inserted, commit) ==
  IF commit THEN committed \cup inserted ELSE committed

\* the transaction ends: its writes become visible, its row lock is released,
\* temp_distribution is dropped and the procedure's variables are gone
EndTransaction(p, commit, result) ==
  /\ ledger' = VisibleLedger(ledger, txLedger[p], commit)
  /\ event_totals' = IF commit /\ txTotals[p] # {}
                     THEN CHOOSE r \in txTotals[p] : TRUE
                     ELSE event_totals
  /\ txLedger' = [txLedger EXCEPT ![p] = {}]
  /\ txTotals' = [txTotals EXCEPT ![p] = {}]
  /\ lock' = IF lock = p THEN NoProc ELSE lock
  /\ pc' = [pc EXCEPT ![p] = "idle"]
  /\ loc' = [loc EXCEPT ![p] = NoLocals]
  /\ temp' = [temp EXCEPT ![p] = << >>]
  /\ results' = [results EXCEPT ![loc[p].run] = result]

\* SELECT ... FOR UPDATE waits while another transaction holds the row lock
RowLockIgnored == TRUE
RowLockFree == lock = NoProc

\* IF NOT FOUND THEN RAISE EXCEPTION
RowFoundAlways(et) == TRUE
RowFound(et) == et.id # NULL

\* lines 91-104: lock and read the event_totals row, or fail when there is
\* none
LockAndRead(p) ==
  /\ UNCHANGED <<upsertVars, clientVars>>
  /\ pc[p] = "idle"
  /\ nruns < MaxRuns
  /\ nruns' = nruns + 1
  /\ IF RowFound(event_totals)
     THEN /\ RowLockFree
          /\ lock' = p
          /\ results' = Append(results, [NoResult EXCEPT !.session = p])
          /\ loc' = [loc EXCEPT ![p] =
               [NoLocals EXCEPT
                  !.run = nruns + 1,
                  !.total_pot = event_totals.total_amount,
                  !.raffle_used = event_totals.raffle_amount_used,
                  !.already_distributed = event_totals.distributed_amount,
                  !.min_score_threshold = event_totals.min_score_for_raffle]]
          /\ temp' = [temp EXCEPT ![p] = << >>]
          /\ pc' = [pc EXCEPT ![p] = "LOCKED"]
     ELSE /\ results' = Append(results, NotFoundResult(p))
          /\ UNCHANGED <<lock, loc, temp, pc>>
  /\ UNCHANGED <<players, scores, event_totals, ledger, txLedger, txTotals>>

\* IF remaining <= 0
NoRemainingStrict(remaining) == remaining < 0
NoRemaining(remaining) == remaining <= 0

\* IF sum_scores = 0
NoScoresOffByOne(sum_scores) == sum_scores <= 1
NoScores(sum_scores) == sum_scores = 0

\* lines 106-118: remaining, the no_remaining return, the cap
ComputeRemaining(p) ==
  /\ UNCHANGED <<upsertVars, clientVars>>
  /\ pc[p] = "LOCKED"
  /\ LET remaining == Remaining(loc[p].total_pot, loc[p].raffle_used,
                                loc[p].already_distributed)
     IN  IF NoRemaining(remaining)
         THEN EndTransaction(p, TRUE, NoopResult(p, "no_remaining", 0))
         ELSE /\ loc' = [loc EXCEPT ![p].remaining = remaining,
                                    ![p].cap_amount = CapAmount(remaining)]
              /\ pc' = [pc EXCEPT ![p] = "COMPUTED_REMAINING"]
              /\ UNCHANGED <<ledger, event_totals, txLedger, txTotals,
                             lock, results, temp>>
  /\ UNCHANGED <<players, scores, nruns>>

\* lines 120-152: aggregation into temp_distribution, the no_scores return
AggregateScores(p) ==
  /\ UNCHANGED <<upsertVars, clientVars>>
  /\ pc[p] = "COMPUTED_REMAINING"
  /\ LET t == Aggregate(players, scores, loc[p].min_score_threshold)
     IN  IF NoScores(SumScores(t))
         THEN EndTransaction(p, TRUE,
                             NoopResult(p, "no_scores", loc[p].remaining))
         ELSE /\ loc' = [loc EXCEPT ![p].sum_scores = SumScores(t)]
              /\ temp' = [temp EXCEPT ![p] = t]
              /\ pc' = [pc EXCEPT ![p] = "AGGREGATED"]
              /\ UNCHANGED <<ledger, event_totals, txLedger, txTotals,
                             lock, results>>
  /\ UNCHANGED <<players, scores, nruns>>

\* lines 154-164: initial proportional shares with cap, first leftover
InitialShares(p) ==
  /\ UNCHANGED <<upsertVars, clientVars>>
  /\ pc[p] = "AGGREGATED"
  /\ LET t == InitialAllocation(temp[p], loc[p].sum_scores,
                                loc[p].remaining, loc[p].cap_amount)
     IN  /\ temp' = [temp EXCEPT ![p] = t]
         /\ loc' = [loc EXCEPT ![p].leftover = loc[p].remaining - SumShares(t)]
  /\ pc' = [pc EXCEPT ![p] = "ALLOCATED"]
  /\ UNCHANGED <<players, scores, event_totals, ledger, lock, txLedger,
                 txTotals, nruns, results>>

\* lines 166-212: one evaluation of the WHILE condition and one round
WaterFill(p) ==
  /\ UNCHANGED <<upsertVars, clientVars>>
  /\ pc[p] = "ALLOCATED"
  /\ LET l == loc[p]
         t == temp[p]
     IN  IF l.leftover > 0 /\ l.realloc_round < max_realloc_rounds
            /\ TotalResidual(t, l.cap_amount) # 0
         THEN LET t2 == WaterFillRound(t, l.leftover, l.cap_amount)
                  delta_allocated == SumShares(t2) - SumShares(t)
              IN  /\ temp' = [temp EXCEPT ![p] = t2]
                  /\ loc' = [loc EXCEPT
                       ![p].leftover = l.leftover - delta_allocated,
                       ![p].realloc_round = l.realloc_round + 1]
                  /\ pc' = [pc EXCEPT ![p] =
                       IF delta_allocated = 0 THEN "REALLOCATED"
                                              ELSE "ALLOCATED"]
         ELSE /\ pc' = [pc EXCEPT ![p] = "REALLOCATED"]
              /\ UNCHANGED <<temp, loc>>
  /\ UNCHANGED <<players, scores, event_totals, ledger, lock, txLedger,
                 txTotals, nruns, results>>

\* lines 214-237: one evaluation of the WHILE condition and one grant
LargestRemainder(p) ==
  /\ UNCHANGED <<upsertVars, clientVars>>
  /\ pc[p] = "REALLOCATED"
  /\ LET l == loc[p]
         t == temp[p]
     IN  IF l.leftover > 0 /\ TopFractional(t, l.cap_amount) # {}
         THEN \E m \in TopFractional(t, l.cap_amount) :
                 /\ temp' = [temp EXCEPT ![p] = GrantOne(t, m, l.cap_amount)]
                 /\ loc' = [loc EXCEPT ![p].leftover = l.leftover - 1]
                 /\ UNCHANGED pc
         ELSE /\ pc' = [pc EXCEPT ![p] = "FINALIZED"]
              /\ UNCHANGED <<temp, loc>>
  /\ UNCHANGED <<players, scores, event_totals, ledger, lock, txLedger,
                 txTotals, nruns, results>>

\* lines 239-266: count the capped rows, insert one ledger row per paid row;
\* player_id REFERENCES players(id): the insert of a row for a player that
\* has been deleted meanwhile raises
InsertLedger(p) ==
  /\ UNCHANGED <<upsertVars, clientVars>>
  /\ pc[p] = "FINALIZED"
  /\ LET t == temp[p]
         paid == PaidRows(t)
     IN  IF paid \subseteq DOMAIN players
         THEN /\ txLedger' = [txLedger EXCEPT ![p] =
                   {LedgerRow(m, t[m].share, loc[p].run) : m \in paid}]
              /\ loc' = [loc EXCEPT
                   ![p].capped_count =
                      Cardinality({m \in DOMAIN t : t[m].is_capped}),
                   ![p].total_distributed =
                      SumOver([m \in paid |-> t[m].share], paid),
                   ![p].player_count = Cardinality(paid)]
              /\ pc' = [pc EXCEPT ![p] = "INSERTED"]
              /\ UNCHANGED <<event_totals, ledger, lock, temp, txTotals,
                             results>>
         ELSE EndTransaction(p, FALSE, ErrorResult(p, txLedger[p]))
  /\ UNCHANGED <<players, scores, nruns>>

\* lines 268-271: UPDATE event_totals SET distributed_amount
UpdateTotals(p) ==
  /\ UNCHANGED <<upsertVars, clientVars>>
  /\ pc[p] = "INSERTED"
  /\ txTotals' = [txTotals EXCEPT ![p] =
       {[event_totals EXCEPT !.distributed_amount =
           loc[p].already_distributed + loc[p].total_distributed]}]
  /\ pc' = [pc EXCEPT ![p] = "UPDATED"]
  /\ UNCHANGED <<players, scores, event_totals, ledger, lock, loc, temp,
                 txLedger, nruns, results>>

\* lines 273-284: return the summary; the transaction commits
ReturnOk(p) ==
  /\ UNCHANGED <<upsertVars, clientVars>>
  /\ pc[p] = "UPDATED"
  /\ EndTransaction(p, TRUE, OkResult(p, loc[p]))
  /\ UNCHANGED <<players, scores, nruns>>

\* an exception anywhere inside the procedure (a failed insert, a cancelled
\* statement, a lost connection): the transaction rolls back
Abort(p) ==
  /\ UNCHANGED <<upsertVars, clientVars>>
  /\ pc[p] # "idle"
  /\ EndTransaction(p, FALSE, ErrorResult(p, txLedger[p]))
  /\ UNCHANGED <<players, scores, nruns>>

Next ==
  \E p \in Procs :
     \/ LockAndRead(p)
     \/ ComputeRemaining(p)
     \/ AggregateScores(p)
     \/ InitialShares(p)
     \/ WaterFill(p)
     \/ LargestRemainder(p)
     \/ InsertLedger(p)
     \/ UpdateTotals(p)
     \/ ReturnOk(p)
     \/ Abort(p)

Spec == Init /\ [][Next]_vars
SpecAlt == InitAlt /\ [][Next]_vars

\* Filter scenarios: player 1 is a main that may be soft-deleted, every other
\* player is a main or an alt of player 1; a player has no score row or one
\* with any score of 0..MaxFilterScore, verified or not; the event_totals row
\* is missing, or has any threshold, with a pot that is untouched, used up
\* (raffle_amount_used = total_amount) or overdrawn (total_amount lowered
\* below raffle_amount_used).
FilterPlayerIds == 1..NumFilterPlayers
InitFilter ==
  /\ raffles = << >>
  /\ \E del \in {NULL, Deleted}, alts \in SUBSET (FilterPlayerIds \ {1}) :
        players = [i \in FilterPlayerIds |->
                     IF i = 1 THEN [PlainMain EXCEPT !.deleted_at = del]
                     ELSE IF i \in alts
                          THEN [is_alt |-> TRUE, main_player_id |-> 1,
                                deleted_at |-> NULL]
                          ELSE PlainMain]
  /\ \E holders \in SUBSET FilterPlayerIds :
        scores \in [holders -> {ScoreRow(v, b) : v \in 0..MaxFilterScore,
                                                b \in BOOLEAN}]
  /\ \/ event_totals = NoTotalsRow
     \/ \E threshold \in 0..MaxThreshold :
           event_totals = [id |-> TotalsId,
                           total_amount |-> FilterTotal,
                           raffle_amount_used |-> 0,
                           distributed_amount |-> 0,
                           min_score_for_raffle |-> threshold]
     \/ \E raffle \in {FilterTotal, FilterTotal + 1} :
           event_totals = [id |-> TotalsId,
                           total_amount |-> FilterTotal,
                           raffle_amount_used |-> raffle,
                           distributed_amount |-> 0,
                           min_score_for_raffle |-> 0]
  /\ InitSessions

SpecFilter == InitFilter /\ [][Next]_vars

\* Worked examples.  The settlement example: a pot of 1000 and three mains
\* with verified scores 50, 30, 20.  The rounding example: a pot of 100 and
\* three mains with a verified score of 1 each.  Small shares: a pot of
\* NumPlayers less a raffle of up to MaxRaffle, every one of the NumPlayers
\* mains with a verified score of 1..MaxScore (in non-increasing order of
\* id), so that proportional shares of at most the cap occur.
ExampleScores == <<50, 30, 20>>
RoundingScores == <<1, 1, 1>>
ExampleRow(total, raffle) ==
  [id |-> TotalsId, total_amount |-> total, raffle_amount_used |-> raffle,
   distributed_amount |-> 0, min_score_for_raffle |-> 0]
InitExamples ==
  /\ raffles = << >>
  /\ \/ /\ players = [i \in 1..3 |-> PlainMain]
        /\ scores = [i \in 1..3 |-> ScoreRow(ExampleScores[i], TRUE)]
        /\ event_totals = ExampleRow(1000, 0)
     \/ /\ players = [i \in 1..3 |-> PlainMain]
        /\ scores = [i \in 1..3 |-> ScoreRow(RoundingScores[i], TRUE)]
        /\ event_totals = ExampleRow(100, 0)
     \/ /\ players = [i \in PlayerIds |-> PlainMain]
        /\ \E count \in [1..MaxScore -> 0..NumPlayers] :
              /\ count[1] = NumPlayers
              /\ \A v \in 1..(MaxScore - 1) : count[v] >= count[v + 1]
              /\ scores = [i \in PlayerIds |->
                    ScoreRow(Cardinality({v \in 1..MaxScore : count[v] >= i}),
                             TRUE)]
        /\ \E raffle \in 0..MaxRaffle :
              event_totals = ExampleRow(NumPlayers, raffle)
  /\ InitSessions

SpecExamples == InitExamples /\ [][Next]_vars

\* Skewed scenarios: NumSkewPlayers mains, each with a verified score out of
\* SkewScores (a score of 0, small scores, and scores that dwarf them), and
\* an untouched pot of SkewTotal or SmallTotal.
SkewScores == {0, 1, 2, 3, 197, 397}
SkewPlayerIds == 1..NumSkewPlayers
InitSkew ==
  /\ raffles = << >>
  /\ players = [i \in SkewPlayerIds |-> PlainMain]
  /\ \E sc \in [SkewPlayerIds -> SkewScores] :
        scores = [i \in SkewPlayerIds |-> ScoreRow(sc[i], TRUE)]
  /\ \E total \in {SmallTotal, SkewTotal} :
        event_totals = ExampleRow(total, 0)
  /\ InitSessions

SpecSkew == InitSkew /\ [][Next]_vars

\* ------------------------------------------------- upsert_scores_big_v2
\* item->>'key': the text of a JSON value, SQL NULL for a missing key
Missing == "<null>"

\* the result of a cast: it raises, or yields NULL, or yields a value
CastError == [err |-> TRUE, null |-> FALSE, val |-> 0]
CastNull == [err |-> FALSE, null |-> TRUE, val |-> 0]
CastTo(v) == [err |-> FALSE, null |-> FALSE, val |-> v]

\* text::uuid: the uuids of this model are those of players 1, 2 and 9, of
\* the event and of the acting user; any other text is not a uuid
ParseUuid(text) ==
  CASE text = Missing -> CastNull
    [] text = "00000000-0000-0000-0000-000000000001" -> CastTo(1)
    [] text = "00000000-0000-0000-0000-000000000002" -> CastTo(2)
    [] text = "00000000-0000-0000-0000-000000000009" -> CastTo(9)
    [] OTHER -> CastError

\* text::numeric(30,0): decimal text is rounded to a whole number, text that
\* is not a number or has more than 30 digits raises
ParseNumericAsInteger(text) ==
  CASE text = Missing -> CastNull
    [] text = "0" -> CastTo(0)
    [] text = "5" -> CastTo(5)
    [] text = "40" -> CastTo(40)
    [] OTHER -> CastError
ParseNumeric(text) ==
  CASE text = Missing -> CastNull
    [] text = "0" -> CastTo(0)
    [] text = "5" -> CastTo(5)
    [] text = "40" -> CastTo(40)
    [] text = "7.5" -> CastTo(8)
    [] OTHER -> CastError

\* text::boolean
ParseBoolean(text) ==
  CASE text = Missing -> CastNull
    [] text = "true" -> CastTo(TRUE)
    [] text = "false" -> CastTo(FALSE)
    [] OTHER -> CastError

\* the one event and the one user of this model
EventId == 1
UserId == 1

\* the row the INSERT would write, or the error it raises: a failed cast, a
\* NULL in a NOT NULL column, a player, event or user that does not exist.
\* raw_score may be NULL; the raw scores of this model's payloads are not.
NewRow(pl, item) ==
  LET e == ParseUuid(item.event_id)
      p == ParseUuid(item.player_id)
      v == ParseNumeric(item.score)
      r == ParseNumeric(item.raw_score)
      b == ParseBoolean(item.verified)
      c == ParseUuid(item.created_by)
  IN  IF \/ e.err \/ p.err \/ v.err \/ r.err \/ b.err \/ c.err
         \/ e.null \/ p.null \/ v.null \/ c.null
         \/ e.val # EventId \/ c.val # UserId
         \/ p.val \notin DOMAIN pl
      THEN [failed |-> TRUE, player_id |-> NULL, row |-> ScoreRow(0, FALSE)]
      ELSE [failed |-> FALSE,
            player_id |-> p.val,
            row |-> [score |-> v.val,
                     raw_score |-> IF r.null THEN NULL ELSE r.val,
                     verified |-> IF b.null THEN TRUE ELSE b.val]]

\* ON CONFLICT (event_id, player_id) DO UPDATE SET score = excluded.score,
\* raw_score = excluded.raw_score, verified = excluded.verified
ConflictAccumulates(existing, excluded) ==
  [excluded EXCEPT !.score = existing.score + excluded.score]
OnConflict(existing, excluded) == excluded

\* INSERT INTO scores ... ON CONFLICT ... DO UPDATE
InsertOrUpdate(sc, player_id, row) ==
  [i \in DOMAIN sc \cup {player_id} |->
     IF i # player_id THEN sc[i]
     ELSE IF player_id \in DOMAIN sc THEN OnConflict(sc[i], row)
     ELSE row]

\* the payload elements of this model: well-formed ones for players 1 and 2,
\* and ones that fail in one field
GoodItem == [event_id |-> "00000000-0000-0000-0000-000000000001",
             player_id |-> "00000000-0000-0000-0000-000000000001",
             score |-> "5", raw_score |-> "5", verified |-> "true",
             created_by |-> "00000000-0000-0000-0000-000000000001"]
PayloadItems ==
  {[GoodItem EXCEPT !.player_id = p, !.score = v, !.raw_score = v] :
     p \in {"00000000-0000-0000-0000-000000000001",
            "00000000-0000-0000-0000-000000000002"},
     v \in {"5", "7.5"}}
  \cup {[GoodItem EXCEPT !.verified = "false"],
        [GoodItem EXCEPT !.verified = Missing, !.raw_score = "40"],
        [GoodItem EXCEPT !.player_id = "not-a-uuid"],
        [GoodItem EXCEPT !.player_id = "00000000-0000-0000-0000-000000000009"],
        [GoodItem EXCEPT !.score = "12a"],
        [GoodItem EXCEPT !.score = "1e31"],
        [GoodItem EXCEPT !.score = Missing]}

RECURSIVE SeqsUpTo(_, _)
SeqsUpTo(S, n) ==
  IF n = 0 THEN {<< >>}
  ELSE LET shorter == SeqsUpTo(S, n - 1)
       IN  shorter \cup {Append(q, x) : q \in shorter, x \in S}

\* lines 15-17: the call starts; a payload that is not an array raises
UpsertCall ==
  /\ upsert.pc = "idle"
  /\ Len(upresults) < MaxUpsertCalls
  /\ \E arg \in [typeof : {"array"}, elements : SeqsUpTo(PayloadItems, MaxPayload)]
              \cup {[typeof |-> "object", elements |-> << >>]} :
        IF arg.typeof # "array"
        THEN /\ upresults' = Append(upresults,
                   [status |-> "error", committed |-> 0, skipped |-> 0])
             /\ UNCHANGED <<payload, upsert>>
        ELSE /\ payload' = arg
             /\ upsert' = [UpsertIdle EXCEPT !.pc = "loop", !.i = 1]
             /\ UNCHANGED upresults
  /\ UNCHANGED <<players, scores, runVars, clientVars>>

\* lines 19-56: one iteration of the loop: the INSERT of one element in its
\* own BEGIN ... EXCEPTION block
UpsertItem ==
  /\ upsert.pc = "loop"
  /\ upsert.i <= Len(payload.elements)
  /\ LET new == NewRow(players, payload.elements[upsert.i])
     IN  IF new.failed
         THEN /\ upsert' = [upsert EXCEPT !.i = @ + 1, !.skipped = @ + 1]
              /\ UNCHANGED scores
         ELSE /\ upsert' = [upsert EXCEPT !.i = @ + 1, !.committed = @ + 1]
              /\ scores' = InsertOrUpdate(scores, new.player_id, new.row)
  /\ UNCHANGED <<players, payload, upresults, runVars, clientVars>>

\* lines 58-61: the loop is over; return the counters
UpsertReturn ==
  /\ upsert.pc = "loop"
  /\ upsert.i > Len(payload.elements)
  /\ upresults' = Append(upresults,
        [status |-> "ok", committed |-> upsert.committed,
         skipped |-> upsert.skipped])
  /\ upsert' = UpsertIdle
  /\ payload' = NoPayload
  /\ UNCHANGED <<players, scores, runVars, clientVars>>

NextUpsert == UpsertCall \/ UpsertItem \/ UpsertReturn

\* Import scenarios: players 1 and 2 exist; the score store is empty or
\* holds a verified row of player 1 from an earlier commit.
InitUpsert ==
  /\ raffles = << >>
  /\ players = [i \in 1..2 |-> PlainMain]
  /\ scores \in {<< >>, [i \in {1} |-> ScoreRow(5, TRUE)]}
  /\ event_totals = NoTotalsRow
  /\ InitSessions

SpecUpsert == InitUpsert /\ [][NextUpsert]_vars

\* ------------------------------------------------------------ admin pages
\* The pages talk to the database as an authenticated user, one request at
\* a time; row level security is enabled on ledger_transactions with a
\* policy for SELECT and one for INSERT only.
LedgerPolicies == {"SELECT", "INSERT"}

\* a ledger row written by a page
ClientRow(player_id, amount, type, batch) ==
  [player_id |-> player_id, amount |-> amount, transaction_type |-> type,
   run |-> 0, batch_operation_id |-> batch, id |-> NoId]

\* the reverse of row t, written by page operation op
ReverseRow(t, batch, op) ==
  [player_id |-> t.player_id, amount |-> -t.amount,
   transaction_type |-> "rollback", run |-> 0, batch_operation_id |-> batch,
   id |-> <<op, t.id[1]>>]

\* UPDATE ledger_transactions SET player_id = target WHERE player_id = source,
\* as far as a policy lets the request see rows to update
RewritePlayer(rows, source, target) ==
  IF "UPDATE" \in LedgerPolicies
  THEN {[r EXCEPT !.player_id = IF @ = source THEN target ELSE @] : r \in rows}
  ELSE rows

\* ON DELETE CASCADE of scores.player_id and ledger_transactions.player_id,
\* ON DELETE SET NULL of players.main_player_id
WithoutPlayer(f, x) == [i \in DOMAIN f \ {x} |-> f[i]]
ClearMain(pl, x) ==
  [i \in DOMAIN pl |->
     IF pl[i].main_player_id = x THEN [pl[i] EXCEPT !.main_player_id = NULL]
     ELSE pl[i]]

\* BulkDeductions.bulkDeductMutation: a batch_operations row, then one
\* deduction row per selected player
BulkDeduct ==
  /\ nops < MaxClientOps
  /\ nops' = nops + 1
  /\ \E selected \in SUBSET DOMAIN players :
        /\ selected # {}
        /\ LET b == Len(batch_operations) + 1
           IN  /\ batch_operations' = Append(batch_operations, "completed")
               /\ ledger' = ledger \cup
                     {ClientRow(i, -1, "deduction", b) : i \in selected}
  /\ UNCHANGED <<players, scores, event_totals, lock, pc, loc, temp,
                 txLedger, txTotals, nruns, results, raffle_status, client,
                 upsertVars, pageVars, rollback,
                 review>>

\* BatchAuditLog.rollbackMutation, first request: the batch is read; a
\* batch that is rolled_back already raises
RollbackCheck(a) ==
  /\ nops < MaxClientOps
  /\ nops' = nops + 1
  /\ rollback[a].pc = "idle"
  /\ \E b \in DOMAIN batch_operations :
        IF batch_operations[b] = "rolled_back"
        THEN UNCHANGED rollback
        ELSE rollback' = [rollback EXCEPT ![a] =
               [RollbackIdle EXCEPT !.pc = "checked", !.batch = b,
                                    !.op = nops + 1]]
  /\ UNCHANGED <<players, scores, runVars, upsertVars, batch_operations,
                 raffle_status, client, pageVars,
                 review>>

\* second request: SELECT * FROM ledger_transactions WHERE
\* batch_operation_id = batchId
RollbackSelect(a) ==
  /\ rollback[a].pc = "checked"
  /\ rollback' = [rollback EXCEPT
        ![a].pc = "selected",
        ![a].transactions =
           {r \in ledger : r.batch_operation_id = rollback[a].batch}]
  /\ UNCHANGED <<players, scores, runVars, upsertVars, batch_operations,
                 raffle_status, client, nops, pageVars,
                 review>>

\* third request: one reverse row per selected row, tagged with the batch
RollbackInsert(a) ==
  /\ rollback[a].pc = "selected"
  /\ ledger' = ledger \cup
        {ReverseRow(t, rollback[a].batch, rollback[a].op) :
           t \in rollback[a].transactions}
  /\ rollback' = [rollback EXCEPT ![a].pc = "inserted"]
  /\ UNCHANGED <<players, scores, event_totals, lock, pc, loc, temp,
                 txLedger, txTotals, nruns, results, upsertVars,
                 batch_operations, raffle_status, client, nops, pageVars,
                 review>>

\* last request: the batch is marked rolled_back
RollbackMark(a) ==
  /\ rollback[a].pc = "inserted"
  /\ batch_operations' =
        [batch_operations EXCEPT ![rollback[a].batch] = "rolled_back"]
  /\ rollback' = [rollback EXCEPT ![a] = RollbackIdle]
  /\ UNCHANGED <<players, scores, runVars, upsertVars, raffle_status,
                 client, nops, pageVars,
                 review>>

\* a request of the rollback fails (if (error) throw error): the mutation
\* ends where it is
RollbackFail(a) ==
  /\ rollback[a].pc # "idle"
  /\ rollback' = [rollback EXCEPT ![a] = RollbackIdle]
  /\ UNCHANGED <<players, scores, runVars, upsertVars, batch_operations,
                 raffle_status, client, nops, pageVars,
                 review>>

\* RaffleManager.handleDrawRaffle: the winners are drawn among the event's
\* score rows; one raffle_win row of amount 1 per winner
DrawRaffle ==
  /\ nops < MaxClientOps
  /\ nops' = nops + 1
  /\ raffle_status = "pending"
  /\ DOMAIN scores # {}
  /\ \E winners \in SUBSET DOMAIN scores :
        /\ winners # {}
        /\ ledger' = ledger \cup
              {ClientRow(i, 1, "raffle_win", NULL) : i \in winners}
  /\ raffle_status' = "completed"
  /\ UNCHANGED <<players, scores, event_totals, lock, pc, loc, temp,
                 txLedger, txTotals, nruns, results, batch_operations, client,
                 upsertVars, pageVars, rollback,
                 review>>

\* PlayerManagement.mergeMutation: scores, ledger rows and alts of the
\* source are pointed at the target, the source is soft-deleted; the scores
\* update fails on uq_scores_event_player when both have a row of the event
MergePlayers ==
  /\ nops < MaxClientOps
  /\ nops' = nops + 1
  /\ \E source \in DOMAIN players, target \in DOMAIN players :
        /\ source # target
        /\ IF source \in DOMAIN scores /\ target \in DOMAIN scores
           THEN UNCHANGED <<players, scores, ledger>>
           ELSE /\ scores' =
                     [i \in (DOMAIN scores \ {source}) \cup
                            (IF source \in DOMAIN scores THEN {target} ELSE {}) |->
                        IF i = target /\ source \in DOMAIN scores
                        THEN scores[source] ELSE scores[i]]
                /\ ledger' = RewritePlayer(ledger, source, target)
                /\ players' =
                     [i \in DOMAIN players |->
                        IF i = source
                        THEN [players[i] EXCEPT !.deleted_at = Deleted]
                        ELSE IF players[i].main_player_id = source
                             THEN [players[i] EXCEPT !.main_player_id = target]
                             ELSE players[i]]
  /\ UNCHANGED <<event_totals, lock, pc, loc, temp, txLedger, txTotals,
                 nruns, results, batch_operations, raffle_status, client,
                 upsertVars, pageVars, rollback,
                 review>>

\* PlayerManagement.deleteMutation, first requests: does the player have a
\* score row or a ledger row?
DeleteCheck ==
  /\ nops < MaxClientOps
  /\ nops' = nops + 1
  /\ client.pc = "idle"
  /\ \E x \in DOMAIN players :
        client' = [pc |-> "delete_checked", player |-> x,
                   has_data |-> \/ x \in DOMAIN scores
                                \/ \E r \in ledger : r.player_id = x]
  /\ UNCHANGED <<players, scores, event_totals, ledger, lock, pc, loc, temp,
                 txLedger, txTotals, nruns, results, batch_operations,
                 raffle_status, upsertVars, pageVars, rollback,
                 review>>

\* PlayerManagement.deleteMutation, last request: a soft delete if the
\* player had data, else DELETE FROM players, which cascades; the DELETE
\* waits for an open transaction that has inserted a row naming the player
DeleteApply ==
  /\ client.pc = "delete_checked"
  /\ client' = ClientIdle
  /\ LET x == client.player
     IN  IF x \notin DOMAIN players
         THEN UNCHANGED <<players, scores, ledger>>
         ELSE IF client.has_data
         THEN /\ players' = [players EXCEPT ![x].deleted_at = Deleted]
              /\ UNCHANGED <<scores, ledger>>
         ELSE /\ \A p \in Procs : \A r \in txLedger[p] : r.player_id # x
              /\ players' = ClearMain(WithoutPlayer(players, x), x)
              /\ scores' = WithoutPlayer(scores, x)
              /\ ledger' = {r \in ledger : r.player_id # x}
  /\ UNCHANGED <<event_totals, lock, pc, loc, temp, txLedger, txTotals,
                 nruns, results, batch_operations, raffle_status, nops,
                 upsertVars, pageVars, rollback,
                 review>>

NextLedger ==
  \/ \E p \in Procs :
        \/ LockAndRead(p)
        \/ ComputeRemaining(p)
        \/ AggregateScores(p)
        \/ InitialShares(p)
        \/ WaterFill(p)
        \/ LargestRemainder(p)
        \/ InsertLedger(p)
        \/ UpdateTotals(p)
        \/ ReturnOk(p)
        \/ Abort(p)
  \/ BulkDeduct
  \/ \E a \in Admins :
        \/ RollbackCheck(a)
        \/ RollbackSelect(a)
        \/ RollbackInsert(a)
        \/ RollbackMark(a)
        \/ RollbackFail(a)
  \/ DrawRaffle
  \/ MergePlayers
  \/ DeleteCheck
  \/ DeleteApply

\* Ledger scenarios: three mains, the first two with a verified score of 1,
\* and a pot of FilterTotal.
InitLedger ==
  /\ raffles = << >>
  /\ players = [i \in 1..3 |-> PlainMain]
  /\ scores = [i \in 1..2 |-> ScoreRow(1, TRUE)]
  /\ event_totals = ExampleRow(FilterTotal, 0)
  /\ InitSessions

SpecLedger == InitLedger /\ [][NextLedger]_vars

\* Rollback scenarios: three mains; a bulk deduction of 1 from some of them
\* has completed as batch 1; further bulk deductions and rollbacks by the
\* admins follow.
InitRollback ==
  /\ raffles = << >>
  /\ players = [i \in 1..3 |-> PlainMain]
  /\ scores = << >>
  /\ event_totals = NoTotalsRow
  /\ \E selected \in SUBSET (1..3) :
        /\ selected # {}
        /\ ledger = {ClientRow(i, -1, "deduction", 1) : i \in selected}
  /\ batch_operations = <<"completed">>
  /\ lock = NoProc
  /\ pc = [p \in Procs |-> "idle"]
  /\ loc = [p \in Procs |-> NoLocals]
  /\ temp = [p \in Procs |-> << >>]
  /\ txLedger = [p \in Procs |-> {}]
  /\ txTotals = [p \in Procs |-> {}]
  /\ nruns = 0
  /\ results = << >>
  /\ payload = NoPayload
  /\ upsert = UpsertIdle
  /\ upresults = << >>
  /\ raffle_status = "pending"
  /\ client = ClientIdle
  /\ nops = 0
  /\ raffle_entries = {}
  /\ draw = DrawIdle
  /\ rollback = [a \in Admins |-> RollbackIdle]
  /\ review = ReviewIdle

NextRollback ==
  \/ BulkDeduct
  \/ \E a \in Admins :
        \/ RollbackCheck(a)
        \/ RollbackSelect(a)
        \/ RollbackInsert(a)
        \/ RollbackMark(a)
        \/ RollbackFail(a)

SpecRollback == InitRollback /\ [][NextRollback]_vars

\* ------------------------------------------------------------ raffle page
\* const RAFFLE_WIN_AMOUNT = 25000000
RAFFLE_WIN_AMOUNT == 25000000

\* eventTotals?.min_score_for_raffle || 0
MinScore(et) == IF RowFound(et) THEN et.min_score_for_raffle ELSE 0

\* scores of the event with score >= minScore, verified or not
QualifiedPlayers(sc, minScore) == {i \in DOMAIN sc : sc[i].score >= minScore}

\* the while loop of the draw: one win per player, until total_prizes
\* winners are drawn or the pool is empty
WinnerSets(qualified, total_prizes) ==
  {w \in SUBSET qualified :
     Cardinality(w) = Min(total_prizes, Cardinality(qualified))}

\* winners.size * RAFFLE_WIN_AMOUNT, overwriting the column
RaffleUsed(used, winners) == Cardinality(winners) * RAFFLE_WIN_AMOUNT

\* RaffleManager.handleDrawRaffle up to the raffle being marked completed:
\* the qualified players are read, the winners drawn, a batch_operations row
\* and one raffle_entries row per qualified player inserted
handleDrawRaffle ==
  /\ draw.pc = "idle"
  /\ \E raffleId \in DOMAIN raffles :
        /\ raffles[raffleId].status = "pending"
        /\ LET qualified == QualifiedPlayers(scores, MinScore(event_totals))
           IN  IF qualified = {}
               THEN UNCHANGED <<batch_operations, raffle_entries, raffles, draw>>
               ELSE \E winners \in WinnerSets(qualified,
                                              raffles[raffleId].total_prizes) :
                      /\ batch_operations' =
                            Append(batch_operations, "completed")
                      /\ raffle_entries' = raffle_entries \cup
                            {[raffle_id |-> raffleId, player_id |-> i,
                              is_winner |-> i \in winners,
                              prize_amount |-> IF i \in winners
                                               THEN RAFFLE_WIN_AMOUNT
                                               ELSE NULL] : i \in qualified}
                      /\ raffles' = [raffles EXCEPT
                                       ![raffleId].status = "completed"]
                      /\ draw' = [pc |-> "drawn", raffle |-> raffleId,
                                  winners |-> winners]
  /\ UNCHANGED <<players, scores, runVars, upsertVars, raffle_status, client,
                 nops, rollback,
                 review>>

\* RaffleManager.handleDrawRaffle, last request: UPDATE event_totals SET
\* raffle_amount_used; the UPDATE waits while a transaction holds the row
\* lock and touches no row when the pair has none
UpdateRaffleUsed ==
  /\ draw.pc = "drawn"
  /\ RowLockFree
  /\ event_totals' =
        IF RowFound(event_totals)
        THEN [event_totals EXCEPT !.raffle_amount_used =
                RaffleUsed(event_totals.raffle_amount_used, draw.winners)]
        ELSE event_totals
  /\ draw' = DrawIdle
  /\ UNCHANGED <<players, scores, ledger, lock, pc, loc, temp, txLedger,
                 txTotals, nruns, results, upsertVars, batch_operations,
                 raffle_status, client, nops, raffles, raffle_entries,
                 rollback,
                 review>>

NextRaffle ==
  \/ \E p \in Procs :
        \/ LockAndRead(p)
        \/ ComputeRemaining(p)
        \/ AggregateScores(p)
        \/ InitialShares(p)
        \/ WaterFill(p)
        \/ LargestRemainder(p)
        \/ InsertLedger(p)
        \/ UpdateTotals(p)
        \/ ReturnOk(p)
        \/ Abort(p)
  \/ handleDrawRaffle
  \/ UpdateRaffleUsed

\* Raffle scenarios: two mains with a verified score of 1 each, NumRaffles
\* pending raffles of the medal with 1..MaxPrizes prizes, and a pot of up to
\* MaxPotPrizes prizes that is large enough for each raffle by itself.
RaffleIds == 1..NumRaffles
InitRaffle ==
  /\ players = [i \in 1..2 |-> PlainMain]
  /\ scores = [i \in 1..2 |-> ScoreRow(1, TRUE)]
  /\ raffles \in [RaffleIds -> [status : {"pending"},
                                total_prizes : 1..MaxPrizes]]
  /\ \E k \in 1..MaxPotPrizes :
        /\ \A r \in RaffleIds : raffles[r].total_prizes <= k
        /\ event_totals = ExampleRow(k * RAFFLE_WIN_AMOUNT, 0)
  /\ InitSessions

SpecRaffle == InitRaffle /\ [][NextRaffle]_vars

\* ----------------------------------------------------------------- claims
RECURSIVE SumAmounts(_)
SumAmounts(rows) ==
  IF rows = {} THEN 0
  ELSE LET r == CHOOSE x \in rows : TRUE IN r.amount + SumAmounts(rows \ {r})

RowsOfRun(rows, r) == {row \in rows : row.run = r}
InFlight(p) == pc[p] # "idle"
Allocating(p) ==
  pc[p] \in {"ALLOCATED", "REALLOCATED", "FINALIZED", "INSERTED", "UPDATED"}
\* remaining as the run read it when it took the lock
RemainingAtStart(p) ==
  loc[p].total_pot - loc[p].raffle_used - loc[p].already_distributed

\* C1: after every invocation of run_weighted_distribution_v2, in any
\* sequence of invocations, raffle_amount_used + distributed_amount is at
\* most total_amount.
C1_PotNeverOverdrawn ==
  event_totals.raffle_amount_used + event_totals.distributed_amount
    <= event_totals.total_amount

\* two invocations in a row have both paid out
C1_Witness ==
  /\ nruns = 2
  /\ \A r \in 1..2 : results[r].status = "ok" /\ results[r].distributed_now > 0

\* C2: concurrent invocations on the same (event, medal) serialize on the
\* row lock: at most one is past the lock at a time, the one in flight works
\* from the committed distributed_amount, and all payouts together never
\* exceed total_amount - raffle_amount_used.
C2_RunsSerialize ==
  /\ \A p, q \in Procs : (p # q /\ InFlight(p)) => ~InFlight(q)
  /\ \A p \in Procs :
        InFlight(p) =>
          loc[p].already_distributed = event_totals.distributed_amount
  /\ SumAmounts(ledger)
       <= event_totals.total_amount - event_totals.raffle_amount_used

\* the second session has run after the first one committed a payout, and
\* has paid out of what the first one left
C2_Witness ==
  /\ nruns = 2
  /\ results[1].session # results[2].session
  /\ \A r \in 1..2 : results[r].status = "ok" /\ results[r].distributed_now > 0
  /\ results[2].remaining_before
       = results[1].remaining_before - results[1].distributed_now

\* C3: no share ever exceeds floor(remaining * 0.10) of its run: not after the
\* initial allocation, a water-filling round or a largest-remainder grant,
\* and not in any ledger row the run inserts.
C3_CapRespected ==
  /\ \A p \in Procs :
        Allocating(p) =>
          /\ \A m \in DOMAIN temp[p] :
                temp[p][m].share <= RemainingAtStart(p) \div 10
          /\ \A row \in txLedger[p] :
                row.amount <= RemainingAtStart(p) \div 10
  /\ \A row \in ledger :
        row.amount <= results[row.run].remaining_before \div 10

\* water-filling has raised a share above its initial value and the
\* largest-remainder pass is about to run
C3_Witness ==
  \E p \in Procs :
     /\ pc[p] = "REALLOCATED"
     /\ loc[p].leftover > 0
     /\ \E m \in DOMAIN temp[p] :
           /\ temp[p][m].share = loc[p].cap_amount
           /\ temp[p][m].share >
                FloorShare(temp[p][m].score_sum, loc[p].sum_scores,
                           loc[p].remaining)

\* C4: a run that gets as far as paying pays out exactly the remaining pot,
\* unless every aggregated player's final share equals the cap.
C4_Conservation ==
  \A p \in Procs :
     pc[p] \in {"INSERTED", "UPDATED"} =>
       \/ SumAmounts(txLedger[p]) = RemainingAtStart(p)
       \/ \A m \in DOMAIN temp[p] :
             temp[p][m].share = RemainingAtStart(p) \div 10

\* the whole remaining pot is paid although a player is left under the cap
C4_Witness ==
  \E p \in Procs :
     /\ pc[p] = "UPDATED"
     /\ SumAmounts(txLedger[p]) = RemainingAtStart(p)
     /\ \E m \in DOMAIN temp[p] : temp[p][m].share < loc[p].cap_amount
     /\ \E m \in DOMAIN temp[p] : temp[p][m].share > 0

\* C5: of two invocations in immediate succession, the second returns
\* {status: "noop", reason: "no_remaining"} and inserts no ledger row.
C5_SecondCallIsNoop ==
  \A r \in 2..Len(results) :
     (results[r - 1].status = "ok" /\ results[r].status \in {"ok", "noop"})
       => /\ results[r].status = "noop"
          /\ results[r].reason = "no_remaining"
          /\ RowsOfRun(ledger, r) = {}

\* C6: a failed invocation leaves the ledger and the event_totals row as they
\* were, and the visible ledger rows always add up to distributed_amount.
C6_FailureLeavesNoTrace ==
  /\ [](/\ SumAmounts(ledger) = event_totals.distributed_amount
        /\ \A r \in 1..Len(results) :
              results[r].status \in {"running", "error"}
                => RowsOfRun(ledger, r) = {})
  /\ [][\A p \in Procs :
          (InFlight(p) /\ results'[loc[p].run].status = "error")
            => (ledger' = ledger /\ event_totals' = event_totals)]_vars

\* an invocation failed after its ledger inserts, and the retry paid out
C6_Witness ==
  /\ nruns = 2
  /\ results[1].status = "error" /\ results[1].rolled_back > 0
  /\ results[2].status = "ok" /\ results[2].distributed_now > 0

\* C7: a successful run inserts exactly one weighted_distribution row per
\* aggregated player with share > 0, for that share, and none for a share of
\* 0; distributed_amount grows by the sum of those rows; the result reports
\* that sum, remaining_before minus it, and the number of rows.
C7_CommitWritesShares ==
  [][\A p \in Procs :
       (pc[p] = "UPDATED" /\ results'[loc[p].run].status = "ok")
         => LET t == temp[p]
                new == ledger' \ ledger
                paid == {m \in DOMAIN t : t[m].share > 0}
                sum == SumOver([m \in paid |-> t[m].share], paid)
                res == results'[loc[p].run]
            IN  /\ \A m \in paid :
                      /\ Cardinality({row \in new : row.player_id = m}) = 1
                      /\ \A row \in new :
                            row.player_id = m => row.amount = t[m].share
                /\ \A row \in new :
                      /\ row.player_id \in paid
                      /\ row.transaction_type = "weighted_distribution"
                /\ event_totals'.distributed_amount
                     = event_totals.distributed_amount + sum
                /\ res.distributed_now = sum
                /\ res.remaining_before = RemainingAtStart(p)
                /\ res.remaining_after = RemainingAtStart(p) - sum
                /\ res.players = Cardinality(new)]_vars

\* a successful run has paid some of the aggregated players and left one
\* with a share of 0
C7_Witness ==
  \E r \in 1..Len(results) :
     /\ results[r].status = "ok"
     /\ results[r].players > 0
     /\ results[r].players < Cardinality(DOMAIN scores)
     /\ Cardinality(RowsOfRun(ledger, r)) = results[r].players

\* the id a score is meant to count for: the main of an alt that has one,
\* the player's own id otherwise
ResolvedId(i) ==
  IF players[i].is_alt /\ players[i].main_player_id # NULL
  THEN players[i].main_player_id
  ELSE i

\* the scores table with the alt's row folded into the main's
FoldedScores(main, alt) ==
  [i \in DOMAIN scores \ {alt} |->
     IF i = main
     THEN [scores[i] EXCEPT !.score = scores[main].score + scores[alt].score]
     ELSE scores[i]]

\* C8: a main with verified score 100 and an alt linked to it with verified
\* score 50 are aggregated and allocated as one player with score 150 would
\* be, and no ledger row of a run names the alt.
C8_AltCountsTowardMain ==
  ( /\ players[1] = PlainMain
    /\ players[2].is_alt /\ players[2].main_player_id = 1
    /\ scores[1] = ScoreRow(AltScoreMain, TRUE)
    /\ scores[2] = ScoreRow(AltScoreAlt, TRUE) )
  => /\ \A p \in Procs :
           /\ pc[p] = "AGGREGATED" =>
                temp[p] = Aggregate(players, FoldedScores(1, 2),
                                    loc[p].min_score_threshold)
           /\ (pc[p] = "ALLOCATED" /\ loc[p].realloc_round = 0) =>
                temp[p] = InitialAllocation(
                            Aggregate(players, FoldedScores(1, 2),
                                      loc[p].min_score_threshold),
                            loc[p].sum_scores, loc[p].remaining,
                            loc[p].cap_amount)
           /\ \A row \in txLedger[p] : row.player_id # 2
     /\ \A row \in ledger : row.player_id # 2

\* C9: whatever the players table holds, no ledger row of a run names a
\* player flagged is_alt.
C9_OnlyMainsArePaid ==
  /\ \A row \in ledger : ~players[row.player_id].is_alt
  /\ \A p \in Procs : \A row \in txLedger[p] : ~players[row.player_id].is_alt

\* C10: a score counts for main_player_id only when its player is flagged
\* is_alt and has a main_player_id, and for the player's own id otherwise.
C10_RedirectOnlyAlts ==
  \A p \in Procs :
     pc[p] = "AGGREGATED" =>
       LET rows == {i \in DOMAIN scores :
                      /\ scores[i].verified
                      /\ scores[i].score >= loc[p].min_score_threshold}
       IN  /\ DOMAIN temp[p] = {ResolvedId(i) : i \in rows}
           /\ \A m \in DOMAIN temp[p] :
                 temp[p][m].score_sum =
                   SumOver([i \in rows |-> scores[i].score],
                           {i \in rows : ResolvedId(i) = m})

\* score rows that are verified and at or above the threshold the run read
Qualifying(p) ==
  {i \in DOMAIN scores :
     scores[i].verified /\ scores[i].score >= loc[p].min_score_threshold}

\* players that are the main_player_id of a qualifying row of someone else
TargetOfOther(p) ==
  {players[i].main_player_id : i \in {j \in Qualifying(p) :
                                        players[j].main_player_id # NULL}}

\* C11 as stated: a player whose only score row is unverified or strictly
\* below min_score_for_raffle does not appear in the aggregation output and
\* receives no ledger row.
C11_DisqualifiedNeverAppear ==
  \A p \in Procs : \A i \in DOMAIN scores \ Qualifying(p) :
     /\ pc[p] = "AGGREGATED" => i \notin DOMAIN temp[p]
     /\ InFlight(p) => \A row \in txLedger[p] : row.player_id # i

\* C11 as amended: only verified rows with score >= min_score_for_raffle
\* contribute: each aggregate is the sum of exactly the qualifying rows that
\* resolve to it, and a player without a qualifying row appears in the
\* aggregation output or in a ledger row only as the main_player_id of a
\* qualifying row of another player.
C11_OnlyQualifyingRowsCount ==
  \A p \in Procs :
     /\ pc[p] = "AGGREGATED" =>
          /\ \A m \in DOMAIN temp[p] :
                temp[p][m].score_sum =
                  SumOver([i \in Qualifying(p) |-> scores[i].score],
                          {i \in Qualifying(p) : MainId(players, i) = m})
          /\ \A i \in Qualifying(p) : MainId(players, i) \in DOMAIN temp[p]
          /\ \A i \in DOMAIN scores \ Qualifying(p) :
                i \in DOMAIN temp[p] => i \in TargetOfOther(p)
     /\ InFlight(p) =>
          \A row \in txLedger[p] :
             row.player_id \in Qualifying(p) \cup TargetOfOther(p)

\* a run pays a player whose row is exactly at the threshold while the
\* other player's row is unverified or below the threshold
C11_Witness ==
  \E p \in Procs :
     /\ pc[p] = "INSERTED"
     /\ loc[p].min_score_threshold > 0
     /\ DOMAIN scores \ Qualifying(p) # {}
     /\ \E i \in Qualifying(p) :
           /\ scores[i].score = loc[p].min_score_threshold
           /\ \E row \in txLedger[p] : row.player_id = i

\* C12: a soft-deleted player is excluded from aggregation and payout: its
\* qualifying scores add to no aggregate and no ledger row of a run names it.
C12_SoftDeletedExcluded ==
  \A p \in Procs :
     LET live == {i \in Qualifying(p) : players[i].deleted_at = NULL}
     IN  /\ pc[p] = "AGGREGATED" =>
              \A m \in DOMAIN temp[p] :
                 temp[p][m].score_sum =
                   SumOver([i \in live |-> scores[i].score],
                           {i \in live : MainId(players, i) = m})
         /\ InFlight(p) =>
              \A row \in txLedger[p] :
                 players[row.player_id].deleted_at = NULL

\* C13: when remaining is <= 0 the run returns {noop, no_remaining}, inserts
\* no ledger row and leaves the event_totals row unchanged.
C13_NoRemainingIsNoop ==
  /\ [](\A p \in Procs :
          (InFlight(p) /\ RemainingAtStart(p) <= 0) =>
             (pc[p] = "LOCKED" /\ txLedger[p] = {} /\ txTotals[p] = {}))
  /\ [][\A p \in Procs :
          (pc[p] = "LOCKED" /\ RemainingAtStart(p) <= 0
             /\ results'[loc[p].run].status # "error")
            => /\ results'[loc[p].run].status = "noop"
               /\ results'[loc[p].run].reason = "no_remaining"
               /\ results'[loc[p].run].remaining = 0
               /\ ledger' = ledger
               /\ event_totals' = event_totals]_vars

\* a run has returned no_remaining on a pot that was used up or overdrawn
C13_Witness ==
  /\ \E r \in 1..Len(results) :
        results[r].status = "noop" /\ results[r].reason = "no_remaining"
  /\ event_totals.id # NULL
  /\ event_totals.total_amount - event_totals.raffle_amount_used
        - event_totals.distributed_amount <= 0

\* sum of the qualifying score rows
QualifyingSum(p) ==
  SumOver([i \in Qualifying(p) |-> scores[i].score], Qualifying(p))

\* C14 as stated: with remaining > 0 the run returns {noop, no_scores}
\* exactly when no score row qualifies.
C14_NoScoresIffEmpty ==
  [][\A p \in Procs :
       (pc[p] = "COMPUTED_REMAINING" /\ results'[loc[p].run].status # "error")
         => ((results'[loc[p].run].status = "noop"
                /\ results'[loc[p].run].reason = "no_scores")
             <=> Qualifying(p) = {})]_vars

\* C14 as amended: with remaining > 0 the run returns {noop, no_scores}
\* exactly when the qualifying scores add up to 0, which includes the case
\* that no row qualifies; it then inserts no ledger row and leaves the
\* event_totals row unchanged.
C14_NoScoresIffZeroSum ==
  [][\A p \in Procs :
       (pc[p] = "COMPUTED_REMAINING" /\ results'[loc[p].run].status # "error")
         => /\ (results'[loc[p].run].status = "noop"
                   /\ results'[loc[p].run].reason = "no_scores")
                <=> QualifyingSum(p) = 0
            /\ results'[loc[p].run].status = "noop"
                 => /\ results'[loc[p].run].remaining = RemainingAtStart(p)
                    /\ ledger' = ledger
                    /\ event_totals' = event_totals
                    /\ txLedger[p] = {} /\ txTotals[p] = {}]_vars

\* a run has returned no_scores although a verified row of score 0 qualified
C14_Witness ==
  /\ \E r \in 1..Len(results) :
        /\ results[r].status = "noop" /\ results[r].reason = "no_scores"
        /\ \E i \in DOMAIN scores :
              /\ scores[i].verified
              /\ scores[i].score >= event_totals.min_score_for_raffle

\* C15: when no event_totals row exists for the pair the run fails with a
\* not-found error and writes nothing to the ledger or to event_totals.
C15_MissingTotalsFails ==
  [][(event_totals.id = NULL /\ nruns' = nruns + 1)
       => /\ results'[nruns'].status = "error"
          /\ results'[nruns'].reason = "not_found"
          /\ ledger' = ledger
          /\ event_totals' = event_totals
          /\ txLedger' = txLedger /\ txTotals' = txTotals
          /\ \A p \in Procs : pc'[p] = "idle"]_vars

\* two invocations have failed for want of the event_totals row
C15_Witness ==
  /\ nruns = 2
  /\ event_totals.id = NULL
  /\ \A r \in 1..2 : results[r].status = "error" /\ results[r].reason = "not_found"
  /\ ledger = {}

\* the runs before run r that returned ok
OkBefore(r) == {q \in 1..(r - 1) : results[q].status = "ok"}
OkRuns == {q \in 1..Len(results) : results[q].status = "ok"}
\* the amounts run r paid, by player
PaidBy(r, amount) == {LedgerRow(i, amount, r) : i \in 1..3}

ShareCounts(p) ==
  {<<v, Cardinality({m \in DOMAIN temp[p] : temp[p][m].share = v})>> :
     v \in {temp[p][m].share : m \in DOMAIN temp[p]}}

\* some player's (s/S) * remaining is not an integer
SomeShareFractional(p) ==
  \E m \in DOMAIN temp[p] :
     (temp[p][m].score_sum * loc[p].remaining) % loc[p].sum_scores # 0

\* no player's (s/S) * remaining exceeds the cap
NoShareOverCap(p) ==
  \A m \in DOMAIN temp[p] :
     temp[p][m].score_sum * loc[p].remaining
       <= loc[p].cap_amount * loc[p].sum_scores

Uuid1 == "00000000-0000-0000-0000-000000000001"
Uuid2 == "00000000-0000-0000-0000-000000000002"

\* a payload element is malformed: its player_id is no uuid or names no
\* player, or its score is missing, not a number or out of range
Malformed(item) ==
  \/ item.player_id \notin {Uuid1, Uuid2}
  \/ item.score \in {Missing, "12a", "1e31"}

\* what a well-formed element puts into the score store
KeyOf(item) == IF item.player_id = Uuid1 THEN 1 ELSE 2
WholeNumber(text) == IF text = "5" THEN 5 ELSE IF text = "7.5" THEN 8 ELSE 40
RowOf(item) ==
  [score |-> WholeNumber(item.score),
   raw_score |-> WholeNumber(item.raw_score),
   verified |-> (item.verified # "false")]

\* C18: each payload element is processed on its own: a malformed element
\* is skipped and counted and changes nothing, a well-formed one is
\* upserted and counted and changes no other row, the loop goes on after
\* either, and the returned committed + skipped is the number of elements.
C18_ElementsIndependent ==
  [][/\ (upsert.pc = "loop" /\ upsert.i <= Len(payload.elements)) =>
          LET item == payload.elements[upsert.i]
          IN  /\ upsert'.pc = "loop" /\ upsert'.i = upsert.i + 1
              /\ payload' = payload
              /\ Malformed(item) =>
                    /\ scores' = scores
                    /\ upsert'.skipped = upsert.skipped + 1
                    /\ upsert'.committed = upsert.committed
              /\ ~Malformed(item) =>
                    /\ KeyOf(item) \in DOMAIN scores'
                    /\ scores'[KeyOf(item)] = RowOf(item)
                    /\ \A k \in DOMAIN scores \ {KeyOf(item)} :
                          k \in DOMAIN scores' /\ scores'[k] = scores[k]
                    /\ upsert'.committed = upsert.committed + 1
                    /\ upsert'.skipped = upsert.skipped
     /\ (upsert.pc = "loop" /\ upsert.i > Len(payload.elements)) =>
          /\ upresults'[Len(upresults')].status = "ok"
          /\ upresults'[Len(upresults')].committed
               + upresults'[Len(upresults')].skipped = Len(payload.elements)
          /\ upresults'[Len(upresults')].committed =
               Cardinality({j \in 1..Len(payload.elements) :
                              ~Malformed(payload.elements[j])})
          /\ scores' = scores]_vars

\* a call has returned after skipping a malformed element and committing a
\* well-formed one that came after it
C18_Witness ==
  /\ upresults # << >>
  /\ upresults[1].status = "ok"
  /\ upresults[1].committed = 1 /\ upresults[1].skipped = 1
  /\ upsert.pc = "idle"
  /\ 2 \in DOMAIN scores /\ scores[2].score = 8

\* the elements before position i that were well-formed and had key k
CommittedFor(k, i) ==
  {j \in 1..(i - 1) : /\ ~Malformed(payload.elements[j])
                      /\ KeyOf(payload.elements[j]) = k}
Last(S) == CHOOSE j \in S : \A o \in S : o <= j

\* the store after committing a batch once more
RECURSIVE Recommit(_, _, _)
Recommit(sc, pl, elements) ==
  IF elements = << >> THEN sc
  ELSE LET new == NewRow(pl, Head(elements))
       IN  Recommit(IF new.failed THEN sc
                    ELSE InsertOrUpdate(sc, new.player_id, new.row),
                    pl, Tail(elements))

C20_LedgerAppendOnly ==
  [][ledger \subseteq ledger']_vars

\* all operations on the (event, medal) have completed
Quiescent == (\A p \in Procs : pc[p] = "idle") /\ draw.pc = "idle"

\* C21: in any interleaving of raffle draws and distribution runs on the
\* same (event, medal), raffle_amount_used + distributed_amount <=
\* total_amount holds after each operation completes, also when a draw
\* completes after a run has paid out.
C21_PotHoldsAcrossDraws ==
  Quiescent =>
    event_totals.raffle_amount_used + event_totals.distributed_amount
      <= event_totals.total_amount

\* C28: after any sequence of raffle draws for the (event, medal),
\* raffle_amount_used equals the total prize amount of all winners recorded
\* across all of those draws.
C28_RaffleUsedCountsAllDraws ==
  draw.pc = "idle" =>
    event_totals.raffle_amount_used =
      Cardinality({e \in raffle_entries : e.is_winner}) * RAFFLE_WIN_AMOUNT

\* session p takes a step of the procedure
StepOf(p) == loc'[p] # loc[p] \/ pc'[p] # pc[p]

\* C22: the procedure always terminates.  The water-filling loop runs at
\* most max_realloc_rounds rounds: a round that is followed by another one
\* has counted itself and has allocated something, and the loop is left
\* when leftover is 0, total_residual is 0 or the rounds are used up.  Every
\* iteration of the largest-remainder loop takes one unit off leftover, and
\* the loop is left when leftover is 0 or no row is under the cap.  leftover
\* is never negative.
C22_AllocationTerminates ==
  /\ [](\A p \in Procs : /\ loc[p].leftover >= 0
                          /\ loc[p].realloc_round <= max_realloc_rounds)
  /\ [][\A p \in Procs :
          /\ (pc[p] = "ALLOCATED" /\ StepOf(p) /\ pc'[p] = "ALLOCATED")
               => /\ loc'[p].realloc_round = loc[p].realloc_round + 1
                  /\ loc'[p].leftover < loc[p].leftover
          /\ (/\ pc[p] = "ALLOCATED" /\ StepOf(p)
              /\ \/ loc[p].leftover = 0
                 \/ loc[p].realloc_round = max_realloc_rounds
                 \/ TotalResidual(temp[p], loc[p].cap_amount) = 0)
               => pc'[p] \in {"REALLOCATED", "idle"}
          /\ (pc[p] = "REALLOCATED" /\ StepOf(p) /\ pc'[p] = "REALLOCATED")
               => loc'[p].leftover = loc[p].leftover - 1
          /\ (/\ pc[p] = "REALLOCATED" /\ StepOf(p)
              /\ \/ loc[p].leftover = 0
                 \/ UnderCap(temp[p], loc[p].cap_amount) = {})
               => pc'[p] \in {"FINALIZED", "idle"}]_vars

\* a round of water-filling has allocated something and the
\* largest-remainder loop has made a grant and still has leftover to grant
C22_Witness ==
  \E p \in Procs :
     /\ pc[p] = "REALLOCATED"
     /\ loc[p].realloc_round >= 1
     /\ loc[p].leftover > 0
     /\ loc[p].remaining - loc[p].leftover = SumShares(temp[p])
     /\ \E m \in DOMAIN temp[p] :
           temp[p][m].share > FloorShare(temp[p][m].score_sum,
                                         loc[p].sum_scores, loc[p].remaining)
           /\ temp[p][m].fractional = 0
           /\ Fractional(temp[p][m].score_sum, loc[p].sum_scores,
                         loc[p].remaining, loc[p].cap_amount) > 0

\* C23: whenever the largest-remainder pass starts with leftover > 0 and at
\* least one row under the cap, leftover is rounding dust: it is smaller
\* than the number of aggregated players (so that no player gets more than
\* one unit from the pass).
C23_LeftoverIsRoundingDust ==
  [][\A p \in Procs :
       (/\ pc[p] = "ALLOCATED" /\ pc'[p] = "REALLOCATED"
        /\ loc'[p].leftover > 0
        /\ UnderCap(temp'[p], loc'[p].cap_amount) # {})
         => loc'[p].leftover < Cardinality(DOMAIN temp'[p])]_vars

\* C24: water-filling only gives units to rows that are under the cap and
\* under their stored raw_share, and each applied delta is at most the row's
\* residual headroom min(cap - share, raw_share - share), so that no share
\* is raised above min(cap, raw_share).
C24_WaterFillWithinHeadroom ==
  [][\A p \in Procs :
       (pc[p] = "ALLOCATED" /\ pc'[p] \in {"ALLOCATED", "REALLOCATED"})
         => \A m \in DOMAIN temp[p] :
               temp'[p][m].share # temp[p][m].share
                 => /\ temp[p][m].share < loc[p].cap_amount
                    /\ temp[p][m].share < temp[p][m].raw_share
                    /\ temp'[p][m].share - temp[p][m].share
                          <= Residual(temp[p][m], loc[p].cap_amount)
                    /\ temp'[p][m].share
                          <= Min(loc[p].cap_amount, temp[p][m].raw_share)]_vars

\* C25: each grant of the largest-remainder pass is exactly one unit, to a
\* row under the cap that has the largest stored fractional among the rows
\* under the cap (among equals, one with the largest aggregated score); the
\* fractional of that row is then zero and no other row changes.  So a row
\* whose fractional is zero, as it is after a first grant, gets a unit only
\* when no row under the cap still has a nonzero fractional.
C25_GrantsFollowFractionals ==
  [][\A p \in Procs :
       (pc[p] = "REALLOCATED" /\ StepOf(p) /\ pc'[p] = "REALLOCATED")
         => LET t == temp[p]
                cap == loc[p].cap_amount
            IN  \E m \in DOMAIN t :
                   /\ t[m].share < cap
                   /\ \A o \in DOMAIN t :
                         t[o].share < cap
                           => \/ t[m].fractional > t[o].fractional
                              \/ /\ t[m].fractional = t[o].fractional
                                 /\ t[m].score_sum >= t[o].score_sum
                   /\ t[m].fractional = 0
                        => \A o \in DOMAIN t :
                              t[o].share < cap => t[o].fractional = 0
                   /\ temp'[p][m].share = t[m].share + 1
                   /\ temp'[p][m].fractional = 0
                   /\ \A o \in DOMAIN t \ {m} : temp'[p][o] = t[o]]_vars

\* the pass has granted a unit to one row (its fractional is zeroed) while
\* another row under the cap still has its nonzero fractional, and there is
\* leftover to grant
C25_Witness ==
  \E p \in Procs :
     /\ pc[p] = "REALLOCATED"
     /\ loc[p].leftover > 0
     /\ \E m, o \in DOMAIN temp[p] :
           /\ m # o
           /\ temp[p][m].fractional = 0
           /\ Fractional(temp[p][m].score_sum, loc[p].sum_scores,
                         loc[p].remaining, loc[p].cap_amount) > 0
           /\ temp[p][m].share < loc[p].cap_amount
           /\ temp[p][o].fractional > 0
           /\ temp[p][o].share < loc[p].cap_amount

C27_RunsExhaustPot ==
  /\ [](\A r \in DOMAIN results :
          (results[r].status = "ok" /\ results[r].remaining_before > 0)
            => results[r].distributed_now > 0)
  /\ [][event_totals'.distributed_amount
          >= event_totals.distributed_amount]_vars

\* C29: a batch is reversed at most once: whatever rollbacks have been
\* invoked on it, the ledger never holds more reversing rows than original
\* rows of the batch, and once the batch is rolled_back and no rollback is
\* under way it holds exactly one reversing row per original row, the
\* amounts tagged with the batch summing to zero.
C29_ReversedAtMostOnce ==
  \A b \in DOMAIN batch_operations :
     LET tagged   == {r \in ledger : r.batch_operation_id = b}
         original == {r \in tagged : r.transaction_type # "rollback"}
         reverse  == {r \in tagged : r.transaction_type = "rollback"}
     IN  /\ Cardinality(reverse) <= Cardinality(original)
         /\ (/\ batch_operations[b] = "rolled_back"
             /\ \A a \in Admins : rollback[a].pc = "idle")
              => /\ Cardinality(reverse) = Cardinality(original)
                 /\ SumAmounts(tagged) = 0

\* ------------------------------------------- the score review page's commit
\* Number.prototype.toString of a parsedScore of this model
NumberToString(n) ==
  CASE n = 0 -> "0"
    [] n = 5 -> "5"
    [] n = 40 -> "40"
    [] n = -5 -> "-5"

\* text.replace(/[^\d]/g, ""): the digits of the text
OnlyDigits(text) ==
  CASE text = "-5" -> "5"
    [] OTHER -> text

\* BigInt(text) of a digit string of this model
BigInt(text) ==
  CASE text = "0" -> 0
    [] text = "5" -> 5
    [] text = "40" -> 40

\* lines 425-428: s.bigScore || s.parsedScore.toString().replace(...) || "0";
\* a missing or empty bigScore is falsy
Digits(s) ==
  IF s.bigScore # "" THEN s.bigScore
  ELSE IF OnlyDigits(NumberToString(s.parsedScore)) # ""
       THEN OnlyDigits(NumberToString(s.parsedScore))
       ELSE "0"

\* lines 375-377: scores.filter(s => s.isVerified && s.linkedPlayerId)
VerifiedScores(rows) ==
  SelectSeq(rows, LAMBDA s : s.isVerified /\ s.linkedPlayerId # NULL)

\* lines 396-405: the players the page loads, those with deleted_at NULL
PlayerMap(pl) == {i \in DOMAIN pl : pl[i].deleted_at = NULL}

\* lines 422-423
FinalPlayerId(pl, s) ==
  IF pl[s.linkedPlayerId].is_alt /\ pl[s.linkedPlayerId].main_player_id # NULL
  THEN pl[s.linkedPlayerId].main_player_id
  ELSE s.linkedPlayerId

\* playerScores.get(id) || "0": the Map is a sequence of <<id, digits>> in
\* insertion order
MapGet(map, id) ==
  IF \E k \in DOMAIN map : map[k][1] = id
  THEN map[CHOOSE k \in DOMAIN map : map[k][1] = id][2]
  ELSE "0"

\* playerScores.set(id, digits): an existing key keeps its position
MapSet(map, id, digits) ==
  IF \E k \in DOMAIN map : map[k][1] = id
  THEN [k \in DOMAIN map |-> IF map[k][1] = id THEN <<id, digits>> ELSE map[k]]
  ELSE Append(map, <<id, digits>>)

\* lines 410-435: verifiedScores.forEach over the first n rows
RECURSIVE PlayerScores(_, _, _)
PlayerScores(pl, verified, n) ==
  IF n = 0 THEN << >>
  ELSE LET map == PlayerScores(pl, verified, n - 1)
           s == verified[n]
       IN  IF s.linkedPlayerId \notin PlayerMap(pl) THEN map
           ELSE IF BigInt(Digits(s)) > BigInt(MapGet(map, FinalPlayerId(pl, s)))
                THEN MapSet(map, FinalPlayerId(pl, s), Digits(s))
                ELSE map

\* lines 443-455: one payload row per entry of the Map
CommitPayload(map) ==
  [k \in DOMAIN map |->
     [player_id |-> map[k][1],
      score |-> IF OnlyDigits(map[k][2]) # "" THEN OnlyDigits(map[k][2]) ELSE "0",
      raw_score |-> IF OnlyDigits(map[k][2]) # "" THEN OnlyDigits(map[k][2]) ELSE "0",
      verified |-> TRUE]]

\* handleCommitScores up to the rpc call (lines 370-464): it returns early
\* without verified linked rows, with a row in error, or with an empty Map;
\* nops counts the commits started
handleCommitScores ==
  /\ review.pc = "idle"
  /\ nops < MaxClientOps
  /\ nops' = nops + 1
  /\ VerifiedScores(review.rows) # << >>
  /\ \A k \in DOMAIN review.rows : ~review.rows[k].scoreError
  /\ LET verified == VerifiedScores(review.rows)
         playerScores == PlayerScores(players, verified, Len(verified))
     IN  /\ playerScores # << >>
         /\ review' = [review EXCEPT !.pc = "rpc",
                                     !.payload = CommitPayload(playerScores)]
  /\ UNCHANGED <<players, scores, runVars, upsertVars, batch_operations,
                 raffle_status, client, pageVars, rollback>>

\* the rows the payload leaves in the scores table, upserted one by one on
\* (event_id, player_id)
RECURSIVE StoreRows(_, _, _)
StoreRows(sc, rows, n) ==
  IF n = 0 THEN sc
  ELSE InsertOrUpdate(StoreRows(sc, rows, n - 1), rows[n].player_id,
                      [score |-> ParseNumeric(rows[n].score).val,
                       raw_score |-> ParseNumeric(rows[n].raw_score).val,
                       verified |-> rows[n].verified])

\* lines 459-502: the rpc, or the direct upsert after it, stores the payload;
\* the page drops its rows (setScores([]))
CommitStore ==
  /\ review.pc = "rpc"
  /\ scores' = StoreRows(scores, review.payload, Len(review.payload))
  /\ review' = ReviewIdle
  /\ UNCHANGED <<players, runVars, upsertVars, batch_operations,
                 raffle_status, client, nops, pageVars, rollback>>

\* lines 492-495, 503-520: the rpc and the direct upsert both fail; nothing
\* is stored and the page keeps its rows
CommitFail ==
  /\ review.pc = "rpc"
  /\ review' = [review EXCEPT !.pc = "idle", !.payload = << >>]
  /\ UNCHANGED <<players, scores, runVars, upsertVars, batch_operations,
                 raffle_status, client, nops, pageVars, rollback>>

NextCommit == handleCommitScores \/ CommitStore \/ CommitFail

\* the review scenarios: player 1 is a main; player 2 is its alt, or carries
\* the alt flag or the main alone; player 3 is a main, live or deleted, or an
\* alt of 1 or of 2. The rows are verified rows linked to a player, with a
\* bigScore or with a parsedScore alone, and one row each that is not
\* verified, not linked, or in error. Player 1 has a stored score.
ReviewPlayerIds == 1..3
ReviewRow(id, big, parsed) ==
  [linkedPlayerId |-> id, isVerified |-> TRUE, scoreError |-> FALSE,
   bigScore |-> big, parsedScore |-> parsed]
ReviewRows ==
  {ReviewRow(i, v[1], v[2]) :
     i \in ReviewPlayerIds,
     v \in {<<"0", 0>>, <<"5", 5>>, <<"40", 40>>, <<"", -5>>}}
  \cup {[ReviewRow(1, "40", 40) EXCEPT !.isVerified = FALSE],
        ReviewRow(NULL, "40", 40),
        [ReviewRow(1, "40", 40) EXCEPT !.scoreError = TRUE]}

InitCommit ==
  /\ raffles = << >>
  /\ players \in [ReviewPlayerIds ->
                    [is_alt : BOOLEAN, main_player_id : {NULL, 1, 2},
                     deleted_at : {NULL, Deleted}]]
  /\ players[1] = PlainMain
  /\ players[2] \in {[PlainMain EXCEPT !.is_alt = TRUE, !.main_player_id = 1],
                     [PlainMain EXCEPT !.main_player_id = 1],
                     [PlainMain EXCEPT !.is_alt = TRUE]}
  /\ players[3] \in {PlainMain,
                     [PlainMain EXCEPT !.deleted_at = Deleted],
                     [PlainMain EXCEPT !.is_alt = TRUE, !.main_player_id = 1],
                     [PlainMain EXCEPT !.is_alt = TRUE, !.main_player_id = 2]}
  /\ scores = [i \in {1} |-> ScoreRow(40, TRUE)]
  /\ event_totals = NoTotalsRow
  /\ ledger = {}
  /\ lock = NoProc
  /\ pc = [p \in Procs |-> "idle"]
  /\ loc = [p \in Procs |-> NoLocals]
  /\ temp = [p \in Procs |-> << >>]
  /\ txLedger = [p \in Procs |-> {}]
  /\ txTotals = [p \in Procs |-> {}]
  /\ nruns = 0
  /\ results = << >>
  /\ payload = NoPayload
  /\ upsert = UpsertIdle
  /\ upresults = << >>
  /\ batch_operations = << >>
  /\ raffle_status = "pending"
  /\ client = ClientIdle
  /\ nops = 0
  /\ raffle_entries = {}
  /\ draw = DrawIdle
  /\ rollback = [a \in Admins |-> RollbackIdle]
  /\ \E rows \in SeqsUpTo(ReviewRows, MaxReview) :
        review = [ReviewIdle EXCEPT !.rows = rows]

SpecCommit == InitCommit /\ [][NextCommit]_vars

\* the verified rows of the review that are linked to a live player
Committable ==
  {k \in DOMAIN review.rows :
     /\ review.rows[k].isVerified
     /\ review.rows[k].linkedPlayerId \in PlayerMap(players)}

\* C30: while a commit's payload is on its way to the store, no two payload
\* rows have the same player id; every verified row of a live player has a
\* payload row keyed by its resolved id (its main when it is an alt with a
\* main_player_id), and that row carries the largest score of the verified
\* rows resolving to that id; no payload row is keyed by an alt that has a
\* main.
C30_OneRowPerResolvedId ==
  review.pc = "rpc" =>
    /\ \A j, k \in DOMAIN review.payload :
          review.payload[j].player_id = review.payload[k].player_id => j = k
    /\ \A r \in Committable :
          \E k \in DOMAIN review.payload :
             /\ review.payload[k].player_id =
                   ResolvedId(review.rows[r].linkedPlayerId)
             /\ \A q \in Committable :
                   ResolvedId(review.rows[q].linkedPlayerId) =
                      review.payload[k].player_id
                   => BigInt(Digits(review.rows[q])) <=
                         BigInt(review.payload[k].score)
             /\ \E q \in Committable :
                   /\ ResolvedId(review.rows[q].linkedPlayerId) =
                         review.payload[k].player_id
                   /\ BigInt(Digits(review.rows[q])) =
                         BigInt(review.payload[k].score)
    /\ \A k \in DOMAIN review.payload :
          ~(/\ players[review.payload[k].player_id].is_alt
            /\ players[review.payload[k].player_id].main_player_id # NULL)
====
